---------------------------- MODULE Spec2Model ----------------------------
(***************************************************************************)
(* Model of the YouTube scraping helpers Video (src/src/utils/Video.js)    *)
(* and Playlist (src/src/utils/Playlist.js).                               *)
(*                                                                         *)
(* JavaScript values are tagged records [k |-> kind, ...].  A JavaScript   *)
(* number x is Num(h) with h = 2 * x, so that the non-integer 1.5 is       *)
(* Num(3) and every comparison and ++ of the code is an integer operation. *)
(* A JavaScript string is a sequence of text chunks (each chunk a          *)
(* non-empty piece of text), so "" is << >>, concatenation is \o and a     *)
(* template literal is the sequence of its pieces.                         *)
(***************************************************************************)
EXTENDS Integers, Sequences, FiniteSets, TLC

(***************************************************************************)
(* Bounds of the model.                                                    *)
(***************************************************************************)
MaxCount == 3   \* largest playlist size / item count the providers report
MaxUrls == 3    \* longest videoUrls list given to getDownloadLinkForMany
MaxFormats == 3 \* longest list of raw format descriptors a video comes with

(***************************************************************************)
(* JavaScript values.                                                      *)
(***************************************************************************)
Null == [k |-> "null"]
Undefined == [k |-> "undefined"]
Absent == [k |-> "absent"]           \* an option key the caller did not give
NaN == [k |-> "NaN"]
Num(h) == [k |-> "number", h |-> h]  \* the number h / 2
Str(s) == [k |-> "string", s |-> s]
List(items) == [k |-> "list", items |-> items]

IsInteger(v) == v.k = "number" /\ v.h % 2 = 0

DigitValue == ("0" :> 0) @@ ("1" :> 1) @@ ("2" :> 2) @@ ("3" :> 3) @@ ("4" :> 4)
              @@ ("5" :> 5) @@ ("6" :> 6) @@ ("7" :> 7) @@ ("8" :> 8) @@ ("9" :> 9)

RECURSIVE DecimalValue(_)
DecimalValue(s) ==
  IF s = << >> THEN 0
  ELSE 10 * DecimalValue(SubSeq(s, 1, Len(s) - 1)) + DigitValue[s[Len(s)]]

\* Number(s) of a string of characters: "" is 0, a digit string is its value,
\* any other text is NaN.
StringToNumber(s) ==
  IF s = << >> THEN Num(0)
  ELSE IF \A i \in 1..Len(s) : s[i] \in DOMAIN DigitValue THEN Num(2 * DecimalValue(s))
  ELSE NaN

\* Number(v)
ToNumber(v) ==
  CASE v.k = "number" -> v
    [] v.k = "NaN" -> NaN
    [] v.k = "null" -> Num(0)
    [] v.k = "undefined" -> NaN
    [] v.k = "string" -> StringToNumber(v.s)
    [] OTHER -> NaN

\* the global isNaN(v)
isNaN(v) == ToNumber(v).k = "NaN"

\* a <= b, a > b on numbers: every comparison with NaN is false
LessEq(a, b) == a.k = "number" /\ b.k = "number" /\ a.h <= b.h
Greater(a, b) == a.k = "number" /\ b.k = "number" /\ a.h > b.h

\* String(n) of a number, as one chunk
NumberToString(v) ==
  IF v.k = "NaN" THEN "NaN"
  ELSE LET a == IF v.h < 0 THEN -v.h ELSE v.h
           sign == IF v.h < 0 THEN "-" ELSE ""
       IN sign \o ToString(a \div 2) \o (IF a % 2 = 1 THEN ".5" ELSE "")

\* `${v}` inside a template literal
Interpolate(v) ==
  CASE v.k \in {"number", "NaN"} -> <<NumberToString(v)>>
    [] v.k = "string" -> v.s
    [] v.k = "null" -> <<"null">>
    [] v.k = "undefined" -> <<"undefined">>
    [] OTHER -> <<"[object Object]">>

\* parseInt(v) of the provider's estimatedItemCount
parseInt(v) ==
  CASE v.k = "number" -> Num(2 * (IF v.h >= 0 THEN v.h \div 2 ELSE -((-v.h) \div 2)))
    [] v.k = "string" -> StringToNumber(v.s)
    [] OTHER -> NaN

(***************************************************************************)
(* Provider outcomes.  A provider call either throws an Error with a       *)
(* message (possibly the empty string) or resolves with a value.           *)
(***************************************************************************)
Throws(message) == [ok |-> FALSE, message |-> message]
Resolves(value) == [ok |-> TRUE, value |-> value]

ErrorMessages == { << >>, <<"Not a YouTube domain">> }

\* what ytpl(url) can answer to the count request
CountOutcomes ==
  { Throws(m) : m \in ErrorMessages }
  \cup { Resolves([estimatedItemCount |-> c]) : c \in {Undefined} \cup { Num(2 * n) : n \in 0..MaxCount } }

(***************************************************************************)
(* Playlist.numberVideo (the continuation after `await ytpl(url)`).        *)
(***************************************************************************)
NumberVideoResponse(count, err, err_msg) ==
  [k |-> "object", numberVideo |-> count, err |-> err, err_msg |-> err_msg]

numberVideo(outcome) ==
  IF outcome.ok
  THEN NumberVideoResponse(parseInt(outcome.value.estimatedItemCount), FALSE, << >>)
  ELSE NumberVideoResponse(Null, TRUE, outcome.message)

(***************************************************************************)
(* Playlist.#prepare_from_to (the continuation after numberVideo).         *)
(***************************************************************************)
\* a validator that lets a non-numeric from through instead of defaulting it
normalizedFrom_OnlyNull(from) == IF from = Null THEN Num(2) ELSE ToNumber(from)

normalizedFrom(from) == IF from = Null \/ isNaN(from) THEN Num(2) ELSE ToNumber(from)
normalizedTo(to, count) == IF to = Null \/ isNaN(to) THEN count ELSE ToNumber(to)

\* a validator that accepts 0 (< instead of <=)
NotGreaterThanZero_Strict(f, t) == Greater(Num(0), f) \/ Greater(Num(0), t)

NotGreaterThanZero(f, t) == LessEq(f, Num(0)) \/ LessEq(t, Num(0))
FromAfterTo(f, t) == Greater(f, t)
BeyondPlaylist(f, t, count) == Greater(f, count) \/ Greater(t, count)

prepare_from_to(outcome, from, to) ==
  LET nv == numberVideo(outcome)
      f == normalizedFrom(from)
      t == normalizedTo(to, nv.numberVideo)
  IN IF nv.err
     THEN [succ |-> FALSE,
           msg_err |-> <<"Error in Get Number Videos in Playlist | ERROR MESSAGE: ">> \o nv.err_msg,
           from |-> Null, to |-> Null]
     ELSE IF NotGreaterThanZero(f, t)
     THEN [succ |-> FALSE,
           msg_err |-> <<"ERROR: From '">> \o Interpolate(f) \o <<"' and To '">> \o Interpolate(t)
                       \o <<"' must be greater than 0">>,
           from |-> Null, to |-> Null]
     ELSE IF FromAfterTo(f, t)
     THEN [succ |-> FALSE,
           msg_err |-> <<"ERROR: From '">> \o Interpolate(f) \o <<"' must be less than or equal to To '">>
                       \o Interpolate(t) \o <<"'">>,
           from |-> Null, to |-> Null]
     ELSE IF BeyondPlaylist(f, t, nv.numberVideo)
     THEN [succ |-> FALSE,
           msg_err |-> <<"ERROR: From '">> \o Interpolate(f) \o <<"' and To '">> \o Interpolate(t)
                       \o <<"' must not be greater than the number of videos in playlist (">>
                       \o Interpolate(nv.numberVideo) \o <<")">>,
           from |-> Null, to |-> Null]
     ELSE [succ |-> TRUE, msg_err |-> << >>, from |-> f, to |-> t]

(***************************************************************************)
(* Text helpers.  Titles, mime types, quality labels and data types are    *)
(* sequences of single characters.                                         *)
(***************************************************************************)
LowerCase == ("A" :> "a") @@ ("B" :> "b") @@ ("C" :> "c") @@ ("D" :> "d") @@ ("E" :> "e")
             @@ ("F" :> "f") @@ ("G" :> "g") @@ ("H" :> "h") @@ ("I" :> "i") @@ ("J" :> "j")
             @@ ("K" :> "k") @@ ("L" :> "l") @@ ("M" :> "m") @@ ("N" :> "n") @@ ("O" :> "o")
             @@ ("P" :> "p") @@ ("Q" :> "q") @@ ("R" :> "r") @@ ("S" :> "s") @@ ("T" :> "t")
             @@ ("U" :> "u") @@ ("V" :> "v") @@ ("W" :> "w") @@ ("X" :> "x") @@ ("Y" :> "y")
             @@ ("Z" :> "z")

\* String.prototype.toLowerCase
toLowerCase(s) == [i \in 1..Len(s) |-> IF s[i] \in DOMAIN LowerCase THEN LowerCase[s[i]] ELSE s[i]]

RECURSIVE trimStart(_)
trimStart(s) == IF s # << >> /\ Head(s) = " " THEN trimStart(Tail(s)) ELSE s

RECURSIVE trimEnd(_)
trimEnd(s) == IF s # << >> /\ s[Len(s)] = " " THEN trimEnd(SubSeq(s, 1, Len(s) - 1)) ELSE s

\* String.prototype.trim
trim(s) == trimEnd(trimStart(s))

RECURSIVE Join(_, _)
\* Array.prototype.join(separator) of an array of strings
Join(strings, separator) ==
  IF strings = << >> THEN << >>
  ELSE IF Len(strings) = 1 THEN strings[1]
  ELSE strings[1] \o separator \o Join(Tail(strings), separator)

RECURSIVE ReplaceChunks(_, _, _)
\* s.replace(/pattern/gi, replacement) where the pattern is a set of chunks
ReplaceChunks(s, pattern, replacement) ==
  IF s = << >> THEN << >>
  ELSE (IF Head(s) \in pattern THEN replacement ELSE <<Head(s)>>)
       \o ReplaceChunks(Tail(s), pattern, replacement)

RECURSIVE SelectSeqInOrder_Reversed(_, _)
\* a filter that hands back the kept records last first
SelectSeqInOrder_Reversed(s, keep) ==
  IF s = << >> THEN << >>
  ELSE SelectSeqInOrder_Reversed(Tail(s), keep) \o (IF Head(s) \in keep THEN <<Head(s)>> ELSE << >>)

RECURSIVE SelectSeqInOrder(_, _)
\* Array.prototype.filter with a stateless predicate given as the set of kept records
SelectSeqInOrder(s, keep) ==
  IF s = << >> THEN << >>
  ELSE (IF Head(s) \in keep THEN <<Head(s)>> ELSE << >>) \o SelectSeqInOrder(Tail(s), keep)

(***************************************************************************)
(* Constants of the package.  ALL_TYPES and D_Q live in src/constants,     *)
(* which is not part of the sources at hand; they are taken from the       *)
(* documentation of the options (main_get_info_options.js:26,34).          *)
(***************************************************************************)
ALL_TYPES == List(<<"video", "audio", "video and audio">>)

Q360p == <<"3", "6", "0", "p">>
Q720p == <<"7", "2", "0", "p">>

\* an object is the sequence of its entries, in insertion order
D_Q == << [key |-> Q360p, value |-> FALSE], [key |-> Q720p, value |-> FALSE] >>

Keys(object) == { object[i].key : i \in 1..Len(object) }

RECURSIVE SpreadInto(_, _)
\* { ...object, ...overlay }: an existing key keeps its place and takes the new value
SpreadInto(object, overlay) ==
  IF overlay = << >> THEN object
  ELSE LET e == Head(overlay)
           merged == IF e.key \in Keys(object)
                     THEN [i \in 1..Len(object) |-> IF object[i].key = e.key THEN e ELSE object[i]]
                     ELSE Append(object, e)
       IN SpreadInto(merged, Tail(overlay))

\* { ...object, ...v } for any value v: null and undefined spread to nothing
Spread(object, v) == IF v.k = "object" THEN SpreadInto(object, v.entries) ELSE object

Object(entries) == [k |-> "object", entries |-> entries]

\* a function parameter with a default value
DefaultParameter(v, default) == IF v \in {Undefined, Absent} THEN default ELSE v

\* one key of { ...DEFAULTS, ...options }
MergedOption(v, default) == IF v = Absent THEN default ELSE v

(***************************************************************************)
(* Video.#prepare_formats                                                  *)
(***************************************************************************)
RECURSIVE BeforeSeparator(_)
\* mimeType.split("; ")[0]
BeforeSeparator(s) ==
  IF s = << >> \/ Head(s) = "; " THEN << >> ELSE <<Head(s)>> \o BeforeSeparator(Tail(s))

FormatType(hasVideo, hasAudio) ==
  IF hasVideo /\ hasAudio THEN "video and audio"
  ELSE IF hasVideo THEN "video"
  ELSE IF hasAudio THEN "audio"
  ELSE "others"

prepare_format(format, videoNumber, videoTitle) ==
  LET str_mimeType == BeforeSeparator(format.mimeType.s)
      quality == format.qualityLabel
      hasVideo == quality \notin {Null, Undefined}
      hasAudio == format.hasAudio
  IN [title |-> str_mimeType \o <<" ", "[">> \o (IF hasVideo THEN quality.s ELSE << >>)
                \o <<"]", " ", "[">>
                \o (IF hasAudio THEN <<"+", "a", "u", "d", "i", "o">> ELSE <<"-", "a", "u", "d", "i", "o">>)
                \o <<"]">>,
      mimeType |-> format.mimeType,
      hasVideo |-> hasVideo,
      hasAudio |-> hasAudio,
      type |-> FormatType(hasVideo, hasAudio),
      quality |-> quality,
      url |-> ReplaceChunks(format.url, {"/videoplayback?"},
                            <<"/videoplayback/">> \o Interpolate(videoNumber) \o <<" - ">>
                            \o videoTitle \o <<"?">>)]

HasMimeType(format) == format.mimeType # Absent

RECURSIVE prepare_each_KeepsAll(_, _, _)
\* a builder that takes "" for a missing mimeType instead of dropping the descriptor
prepare_each_KeepsAll(formats, videoNumber, videoTitle) ==
  IF formats = << >> THEN << >>
  ELSE <<prepare_format(IF HasMimeType(Head(formats)) THEN Head(formats)
                        ELSE [Head(formats) EXCEPT !.mimeType = Str(<< >>)],
                        videoNumber, videoTitle)>>
       \o prepare_each_KeepsAll(Tail(formats), videoNumber, videoTitle)

RECURSIVE prepare_each(_, _, _)
prepare_each(formats, videoNumber, videoTitle) ==
  IF formats = << >> THEN << >>
  ELSE (IF HasMimeType(Head(formats))
        THEN <<prepare_format(Head(formats), videoNumber, videoTitle)>>
        ELSE << >>)
       \o prepare_each(Tail(formats), videoNumber, videoTitle)

prepare_formats(formats, videoNumber, videoTitle) ==
  prepare_each(formats, videoNumber, ReplaceChunks(videoTitle, {"/", "|", "#"}, <<"~">>))

(***************************************************************************)
(* Video.#filter_formats_by_types                                          *)
(***************************************************************************)
filter_formats_by_types(formats, types) ==
  IF types.k # "list" THEN formats
  ELSE SelectSeqInOrder(formats,
         { formats[i] : i \in { j \in 1..Len(formats) :
                                  \E t \in 1..Len(types.items) : types.items[t] = formats[j].type } })

(***************************************************************************)
(* Video.#filter_formats_by_qualitys.  The regular expression carries the  *)
(* flags "gi": RegExp.prototype.test starts at lastIndex, leaves lastIndex *)
(* after the match when it finds one and resets it to 0 when it does not.  *)
(***************************************************************************)
RECURSIVE EnabledQualities(_)
EnabledQualities(qualitys) ==
  IF qualitys = << >> THEN << >>
  ELSE (IF Head(qualitys).value THEN <<Head(qualitys).key>> ELSE << >>)
       \o EnabledQualities(Tail(qualitys))

MatchesAt(text, p, label) ==
  /\ Len(label) > 0
  /\ p + Len(label) - 1 <= Len(text)
  /\ toLowerCase(SubSeq(text, p, p + Len(label) - 1)) = toLowerCase(label)

\* regExp.test(text) with regExp.lastIndex = lastIndex: [found, lastIndex]
RegExpTest(labels, text, lastIndex) ==
  LET starts == { p \in (lastIndex + 1)..Len(text) : \E a \in 1..Len(labels) : MatchesAt(text, p, labels[a]) }
  IN IF starts = {} THEN [found |-> FALSE, lastIndex |-> 0]
     ELSE LET p == CHOOSE q \in starts : \A r \in starts : q <= r
              a == CHOOSE b \in 1..Len(labels) :
                     /\ MatchesAt(text, p, labels[b])
                     /\ \A c \in 1..(b - 1) : ~MatchesAt(text, p, labels[c])
          IN [found |-> TRUE, lastIndex |-> p + Len(labels[a]) - 1]

RECURSIVE FilterByRegExp(_, _, _)
FilterByRegExp(formats, labels, lastIndex) ==
  IF formats = << >> THEN << >>
  ELSE LET t == RegExpTest(labels, Head(formats).title, lastIndex)
       IN (IF t.found THEN <<Head(formats)>> ELSE << >>)
          \o FilterByRegExp(Tail(formats), labels, t.lastIndex)

\* a quality filter that is skipped
filter_formats_by_qualitys_Skipped(formats, qualitys) == formats

filter_formats_by_qualitys(formats, qualitys) ==
  LET merged == Spread(D_Q, DefaultParameter(qualitys, Object(<< >>)))
      enabledQualities == EnabledQualities(merged)
  IN IF enabledQualities = << >> THEN formats
     ELSE FilterByRegExp(formats, enabledQualities, 0)

(***************************************************************************)
(* Video.#data_to_text                                                     *)
(***************************************************************************)
FormatsToText(formats) ==
  Join([i \in 1..Len(formats) |-> <<"Type : ">> \o formats[i].title \o <<"\nUrl  : ">> \o formats[i].url],
       <<"\n\n">>)

data_to_text(videoData) ==
  <<"ID          : ">> \o videoData.id \o <<"\nTitle       : ">> \o videoData.title
  \o <<"\nYoutube Url : ">> \o videoData.video_url
  \o <<"\n", "----------------------------------------------------------------------------------------------------", "\n\n">>
  \o FormatsToText(videoData.formats)

(***************************************************************************)
(* Video.getInfo: the normalisation before the try block, and the          *)
(* continuation after `await getInfo(url)`.                                *)
(***************************************************************************)
json == <<"j", "s", "o", "n">>
text == <<"t", "e", "x", "t">>

\* VideoDataType?.trim().toLowerCase() throws a TypeError unless the value is
\* null, undefined or a string
NormalizeThrows(VideoDataType) == VideoDataType.k \notin {"null", "undefined", "string"}

\* VideoDataType?.trim().toLowerCase() || "json"
NormalizeDataType(VideoDataType) ==
  IF VideoDataType.k = "string" /\ toLowerCase(trim(VideoDataType.s)) # << >>
  THEN toLowerCase(trim(VideoDataType.s))
  ELSE json

VideoResponse(VideoData, err, err_msg) ==
  [k |-> "object", VideoData |-> VideoData, err |-> err, err_msg |-> err_msg]

Video_getInfo(outcome, getInfoOptions) ==
  LET VideoNumber == MergedOption(getInfoOptions.VideoNumber, Num(2))
      VideoDataType == NormalizeDataType(MergedOption(getInfoOptions.VideoDataType, Str(json)))
      types == MergedOption(getInfoOptions.types, ALL_TYPES)
      qualitys == MergedOption(getInfoOptions.qualitys, Object(D_Q))
  IN IF ~outcome.ok
     THEN VideoResponse(Null, TRUE, <<"Failed to get video info: ">> \o outcome.message)
     ELSE LET info == outcome.value
              title == info.videoDetails.title
              prepared == prepare_formats(info.formats, DefaultParameter(VideoNumber, Num(2)), title)
              byTypes == filter_formats_by_types(prepared, types)
              formats == filter_formats_by_qualitys(byTypes, qualitys)
              VideoData == [k |-> "object", id |-> info.videoDetails.videoId, title |-> title,
                            video_url |-> info.videoDetails.video_url, formats |-> formats]
          IN VideoResponse(IF VideoDataType = text THEN Str(data_to_text(VideoData)) ELSE VideoData,
                           FALSE, << >>)

(***************************************************************************)
(* Video.getDownloadLink (the continuation after its provider call).       *)
(***************************************************************************)
DownloadResponse(results, err, err_msg) ==
  [k |-> "object", results |-> results, err |-> err, err_msg |-> err_msg]

\* a getDownloadLink that raises err when no format survives
getDownloadLink_NoLinkIsError(outcome, videoUrl, videoNumberArg, typesArg, qualitysArg) ==
  LET videoNumber == DefaultParameter(videoNumberArg, Num(2))
      contextInfo == <<"| N: ">> \o Interpolate(videoNumber) \o <<" | url: ">> \o Interpolate(videoUrl)
      info == Video_getInfo(outcome, [VideoNumber |-> videoNumber, VideoDataType |-> Absent,
                                      types |-> DefaultParameter(typesArg, List(<<"video and audio">>)),
                                      qualitys |-> DefaultParameter(qualitysArg, Object(<< >>))])
  IN IF info.err
     THEN DownloadResponse(Null, TRUE,
                           <<"ERROR: In Get Download Link ">> \o contextInfo
                           \o <<" | ERROR MESSAGE: ">> \o info.err_msg)
     ELSE IF Len(info.VideoData.formats) = 0
     THEN DownloadResponse(Null, TRUE, <<"No download link found ">> \o contextInfo)
     ELSE DownloadResponse(Str(info.VideoData.formats[1].url), FALSE, << >>)

getDownloadLink(outcome, videoUrl, videoNumberArg, typesArg, qualitysArg) ==
  LET videoNumber == DefaultParameter(videoNumberArg, Num(2))
      types == DefaultParameter(typesArg, List(<<"video and audio">>))
      qualitys == DefaultParameter(qualitysArg, Object(<< >>))
      contextInfo == <<"| N: ">> \o Interpolate(videoNumber) \o <<" | url: ">> \o Interpolate(videoUrl)
      info == Video_getInfo(outcome, [VideoNumber |-> videoNumber, VideoDataType |-> Absent,
                                      types |-> types, qualitys |-> qualitys])
  IN IF info.err
     THEN DownloadResponse(Null, TRUE,
                           <<"ERROR: In Get Download Link ">> \o contextInfo
                           \o <<" | ERROR MESSAGE: ">> \o info.err_msg)
     ELSE IF Len(info.VideoData.formats) = 0
     THEN DownloadResponse(Str(<<"No download link found ">> \o contextInfo), FALSE, << >>)
     ELSE DownloadResponse(Str(info.VideoData.formats[1].url), FALSE, << >>)

(***************************************************************************)
(* Video.getDownloadLinkForMany: the pieces of its loop.                   *)
(***************************************************************************)
\* typeof videoUrls === "string" ? [videoUrls] : videoUrls, after the default []
NormalizeVideoUrls(videoUrlsArg) ==
  LET videoUrls == DefaultParameter(videoUrlsArg, List(<< >>))
  IN IF videoUrls.k = "string" THEN List(<<videoUrls>>) ELSE videoUrls

\* a loop that reads videoUrls?.length and so never throws
LengthThrows_Never(videoUrls) == FALSE

\* reading videoUrls.length throws a TypeError on null and undefined
LengthThrows(videoUrls) == videoUrls.k \in {"null", "undefined"}

\* videoUrls.length; undefined on a value that has none, which ends the loop
LengthOf(videoUrls) == IF videoUrls.k = "list" THEN Len(videoUrls.items) ELSE 0

\* getDownloadLink(videoUrls[i], i + 1, types, qualitys) for the 0-based i
ManyDownloadLink(outcome, videoUrls, i, types, qualitys) ==
  getDownloadLink(outcome, videoUrls.items[i + 1], Num(2 * (i + 1)), types, qualitys)

\* a loop that pushes link whether the item failed or not
ManySlot_AlwaysLink(downloadResult) == downloadResult.results

\* err ? err_msg : link
ManySlot(downloadResult) ==
  IF downloadResult.err THEN Str(downloadResult.err_msg) ELSE downloadResult.results

\* String(element) inside Array.prototype.join: null and undefined give ""
JoinElement(v) == IF v.k \in {"null", "undefined"} THEN << >> ELSE Interpolate(v)

ManyResponse(links) ==
  DownloadResponse(Str(Join([j \in 1..Len(links) |-> JoinElement(links[j])], <<"\n\n">>)), FALSE, << >>)

ManyFailure(message) ==
  DownloadResponse(Null, TRUE, <<"Error in Get Dowanload Link For Many : ">> \o message)

(***************************************************************************)
(* Playlist.getInfo (the continuation after `await ytpl(url, {limit})`).   *)
(***************************************************************************)
PlaylistResponse(PlaylistData, err, err_msg) ==
  [k |-> "object", PlaylistData |-> PlaylistData, err |-> err, err_msg |-> err_msg]

\* a fetch whose failure is reported as an empty playlist
Playlist_getInfo_EmptyOnFailure(outcome, url) ==
  PlaylistResponse([k |-> "object", id |-> << >>, title |-> << >>, url |-> url,
                    number_videos |-> 0, videos |-> << >>],
                   FALSE, << >>)

Playlist_getInfo(outcome, url) ==
  IF ~outcome.ok
  THEN PlaylistResponse(Null, TRUE, <<"Failed to get playlist info: ">> \o outcome.message)
  ELSE LET items == outcome.value.items
       IN PlaylistResponse(
            [k |-> "object", id |-> outcome.value.id, title |-> outcome.value.title, url |-> url,
             number_videos |-> Len(items),
             videos |-> [i \in 1..Len(items) |->
                          [id |-> items[i].id, title |-> items[i].title,
                           video_url |-> items[i].url, formats |-> Absent]]],
            FALSE, << >>)

\* Playlist.#add_download_links: the value stored for one video
AddedFormats(outcome, video_url, videoNumber) ==
  LET r == Video_getInfo(outcome, [VideoNumber |-> Str(<<ToString(videoNumber)>>),
                                   VideoDataType |-> Absent, types |-> Absent, qualitys |-> Absent])
  IN IF ~r.err
     THEN List(r.VideoData.formats)
     ELSE Str(<<"Error in Get Video Info | ERROR MESSAGE: ">> \o r.err_msg)

(***************************************************************************)
(* Playlist.getDownloadsLinks: the pieces of its loop.                     *)
(***************************************************************************)
Truthy(v) ==
  CASE v.k \in {"null", "undefined", "absent", "NaN"} -> FALSE
    [] v.k = "string" -> v.s # << >>
    [] v.k = "number" -> v.h # 0
    [] OTHER -> TRUE

\* String(videoIndex) in PlaylistData.videos && "video_url" in PlaylistData.videos[videoIndex]
videoExists(PlaylistData, videoIndex) ==
  /\ IsInteger(videoIndex)
  /\ (videoIndex.h \div 2) \in DOMAIN PlaylistData.videos

videoUrlAt(PlaylistData, videoIndex) ==
  IF videoExists(PlaylistData, videoIndex)
  THEN PlaylistData.videos[videoIndex.h \div 2].video_url
  ELSE Null

EmptyLinks(responseFormat) == IF responseFormat = text THEN Str(<< >>) ELSE List(<< >>)

addLink(downloadLinks, responseFormat, link) ==
  IF responseFormat = text
  THEN Str(downloadLinks.s \o Interpolate(link) \o <<"\n">>)
  ELSE List(Append(downloadLinks.items, link))

NotFound(videoIndex) == Str(<<"Video URL not found | N: ">> \o Interpolate(videoIndex))

\* a gate that lets a failed validation through
ValidationFailed_Never(validated) == FALSE

\* if (!succ): the validation gate
ValidationFailed(validated) == ~validated.succ

\* what addLink receives for a video whose download link was requested
LinkOf(downloadResult) == downloadResult

RECURSIVE RunLoop(_, _, _, _, _)
\* the for loop from videoIndex on, up to its next await or its end
RunLoop(videoIndex, to, PlaylistData, responseFormat, downloadLinks) ==
  IF ~LessEq(videoIndex, to)
  THEN [awaiting |-> FALSE, videoIndex |-> videoIndex, downloadLinks |-> downloadLinks]
  ELSE IF Truthy(videoUrlAt(PlaylistData, videoIndex))
  THEN [awaiting |-> TRUE, videoIndex |-> videoIndex, downloadLinks |-> downloadLinks]
  ELSE RunLoop(Num(videoIndex.h + 2), to, PlaylistData, responseFormat,
               addLink(downloadLinks, responseFormat, NotFound(videoIndex)))

\* a batch that raises err as soon as one of its items failed
BatchResponse_ItemErrors(downloadLinks) ==
  DownloadResponse(downloadLinks,
                   /\ downloadLinks.k = "list"
                   /\ \E i \in 1..Len(downloadLinks.items) :
                        downloadLinks.items[i].k = "object" /\ downloadLinks.items[i].err,
                   << >>)

BatchResponse(downloadLinks) == DownloadResponse(downloadLinks, FALSE, << >>)

(***************************************************************************)
(* Inputs and provider answers the model draws from.                       *)
(***************************************************************************)
VideoUrls == { Str(<<"https://youtu.be/", "a">>), Str(<<"https://youtu.be/", "b">>) }
PlaylistUrl == Str(<<"https://youtube.com/playlist?list=", "PL1">>)

videoMp4 == <<"v", "i", "d", "e", "o", "/", "m", "p", "4">>
audioWebm == <<"a", "u", "d", "i", "o", "/", "w", "e", "b", "m">>

Descriptor(mimeType, qualityLabel, hasAudio, itag) ==
  [mimeType |-> mimeType, qualityLabel |-> qualityLabel, hasAudio |-> hasAudio,
   url |-> <<"https://cdn", "/videoplayback?", itag>>]

VideoOnly720 == Descriptor(Str(videoMp4 \o <<"; ", "a", "v", "c", "1">>), Str(Q720p), FALSE, "itag=136")
Muxed360 == Descriptor(Str(videoMp4 \o <<"; ", "a", "v", "c", "1">>), Str(Q360p), TRUE, "itag=18")
Muxed720 == Descriptor(Str(videoMp4 \o <<"; ", "a", "v", "c", "1">>), Str(Q720p), TRUE, "itag=22")
AudioOnly == Descriptor(Str(audioWebm \o <<"; ", "o", "p", "u", "s">>), Null, TRUE, "itag=251")
NoMimeType == Descriptor(Absent, Null, FALSE, "itag=0")

RawVideoInfo(id, formats) ==
  [videoDetails |-> [videoId |-> <<id>>, title |-> <<"Song ", "/", " live ", "#", "1">>,
                     video_url |-> <<"https://youtu.be/", id>>],
   formats |-> formats]

\* what @distube/ytdl-core getInfo(url) can answer
VideoOutcomes ==
  { Throws(m) : m \in ErrorMessages }
  \cup { Resolves(RawVideoInfo("a", <<NoMimeType, AudioOnly>>)),
         Resolves(RawVideoInfo("b", <<VideoOnly720, Muxed360, Muxed720>>)) }

PlaylistItem(n, url) == [id |-> <<ToString(n)>>, title |-> <<"Item ", ToString(n)>>, url |-> url]

\* the first n entries of the playlist; the last one may come without a url
PlaylistItems(n, lastHasUrl) ==
  [i \in 1..n |-> PlaylistItem(i, IF i < n \/ lastHasUrl
                                  THEN Str(<<"https://youtu.be/", ToString(i)>>)
                                  ELSE Undefined)]

\* what ytpl(url, {limit}) can answer to the request for the entries
PlaylistOutcomes ==
  { Throws(m) : m \in ErrorMessages }
  \cup { Resolves([id |-> <<"PL1">>, title |-> <<"Mix">>, items |-> PlaylistItems(n, b)]) :
           n \in 0..MaxCount, b \in BOOLEAN }

DataTypeInputs == { Absent, Null, Str(<<" ", "T", "e", "x", "t", " ">>), Str(<<"x", "m", "l">>), Num(10) }
TypesInputs == { Absent, Null, List(<< >>), List(<<"video">>) }
QualitysInputs == { Absent, Object(<< [key |-> Q720p, value |-> TRUE] >>) }

\* the from / to values a caller can give to the range validator
RangeInputs ==
  {Null, Undefined, NaN, Str(<< >>), Str(<<"2">>), Str(<<"a", "b">>)}
  \cup { Num(h) : h \in -2..(2 * MaxCount + 2) }

\* the from / to options a caller gives to getDownloadsLinks
FromToOptions == { Absent, Num(0), Num(2), Num(3), Num(4), Num(6) }

RECURSIVE ListsUpTo(_, _)
ListsUpTo(S, n) ==
  IF n = 0 THEN { << >> }
  ELSE LET shorter == ListsUpTo(S, n - 1)
       IN shorter \cup { Append(l, x) : l \in { m \in shorter : Len(m) = n - 1 }, x \in S }

VideoUrlsInputs ==
  { Absent, Null } \cup VideoUrls \cup { List(l) : l \in ListsUpTo(VideoUrls, MaxUrls) }

Invocations ==
  [op : {"Video.getInfo"}, url : VideoUrls,
   getInfoOptions : [VideoNumber : {Absent, Num(6)}, VideoDataType : DataTypeInputs,
                     types : TypesInputs, qualitys : QualitysInputs]]
  \cup [op : {"Video.getDownloadLink"}, videoUrl : VideoUrls, videoNumber : {Absent, Num(4)},
        types : TypesInputs, qualitys : QualitysInputs]
  \cup [op : {"Video.getDownloadLinkForMany"}, videoUrls : VideoUrlsInputs,
        types : TypesInputs, qualitys : QualitysInputs]
  \cup [op : {"Playlist.numberVideo"}, url : {PlaylistUrl}]
  \cup [op : {"Playlist.getInfo"}, url : {PlaylistUrl}, withDownloadLinks : BOOLEAN]
  \cup [op : {"Playlist.getDownloadsLinks"}, url : {PlaylistUrl},
        options : [VideoDataType : DataTypeInputs, types : {Absent, Null},
                   from : FromToOptions, to : FromToOptions, qualitys : {Absent}]]

(***************************************************************************)
(* State of one invocation.                                                *)
(***************************************************************************)
VARIABLES
  args,            \* the operation invoked and its arguments
  pc,              \* "start", the provider call awaited, or "done"
  responseFormat,  \* getDownloadsLinks: the normalised response format
  count,           \* #prepare_from_to: what numberVideo returned
  range,           \* what #prepare_from_to returned
  PlaylistData,    \* Playlist.getInfo / getDownloadsLinks: the playlist data
  links,           \* the collection under construction (links, downloadLinks)
  idx,             \* the loop variable (i, videoIndex, videoNumber)
  calls,           \* the provider calls issued so far, with their outcomes
  ret              \* how the invocation ended

vars == <<args, pc, responseFormat, count, range, PlaylistData, links, idx, calls, ret>>

NoRange == [succ |-> FALSE, msg_err |-> << >>, from |-> Null, to |-> Null]
Pending == [state |-> "pending"]
Returned(value) == [state |-> "returned", value |-> value]
Rejected(error) == [state |-> "rejected", error |-> error]

Locals0 ==
  /\ pc = "start"
  /\ responseFormat = << >>
  /\ count = Undefined
  /\ range = NoRange
  /\ PlaylistData = Null
  /\ links = Undefined
  /\ idx = Undefined
  /\ calls = << >>
  /\ ret = Pending

Init == args \in Invocations /\ Locals0

\* a provider call is issued / the outcome of the call in flight arrives
Issue(log, api, url) == Append(log, [api |-> api, url |-> url, done |-> FALSE, outcome |-> Undefined])
\* a call whose completion is not waited for
Settle_NotAwaited(outcome) == calls

Settle(outcome) == [calls EXCEPT ![Len(calls)] = [@ EXCEPT !.done = TRUE, !.outcome = outcome]]

(* Video.getInfo *)
VideoGetInfoCall ==
  /\ args.op = "Video.getInfo" /\ pc = "start"
  /\ IF NormalizeThrows(MergedOption(args.getInfoOptions.VideoDataType, Str(json)))
     THEN /\ pc' = "done"
          /\ ret' = Rejected(<<"TypeError: VideoDataType?.trim is not a function">>)
          /\ calls' = calls
     ELSE /\ pc' = "await_video"
          /\ calls' = Issue(calls, "ytdl.getInfo", args.url)
          /\ ret' = ret
  /\ UNCHANGED <<args, responseFormat, count, range, PlaylistData, links, idx>>

VideoGetInfoResume ==
  /\ args.op = "Video.getInfo" /\ pc = "await_video"
  /\ \E outcome \in VideoOutcomes :
       /\ calls' = Settle(outcome)
       /\ ret' = Returned(Video_getInfo(outcome, args.getInfoOptions))
  /\ pc' = "done"
  /\ UNCHANGED <<args, responseFormat, count, range, PlaylistData, links, idx>>

(* Video.getDownloadLink *)
GetDownloadLinkCall ==
  /\ args.op = "Video.getDownloadLink" /\ pc = "start"
  /\ pc' = "await_video"
  /\ calls' = Issue(calls, "ytdl.getInfo", args.videoUrl)
  /\ UNCHANGED <<args, responseFormat, count, range, PlaylistData, links, idx, ret>>

GetDownloadLinkResume ==
  /\ args.op = "Video.getDownloadLink" /\ pc = "await_video"
  /\ \E outcome \in VideoOutcomes :
       /\ calls' = Settle(outcome)
       /\ ret' = Returned(getDownloadLink(outcome, args.videoUrl, args.videoNumber,
                                          args.types, args.qualitys))
  /\ pc' = "done"
  /\ UNCHANGED <<args, responseFormat, count, range, PlaylistData, links, idx>>

(* Video.getDownloadLinkForMany *)
ManyCall ==
  /\ args.op = "Video.getDownloadLinkForMany" /\ pc = "start"
  /\ LET videoUrls == NormalizeVideoUrls(args.videoUrls)
     IN IF LengthThrows(videoUrls)
        THEN /\ pc' = "done"
             /\ ret' = Returned(ManyFailure(<<"Cannot read properties of null (reading 'length')">>))
             /\ UNCHANGED <<links, idx, calls>>
        ELSE IF 0 < LengthOf(videoUrls)
        THEN /\ pc' = "await_video"
             /\ links' = List(<< >>)
             /\ idx' = Num(0)
             /\ calls' = Issue(calls, "ytdl.getInfo", videoUrls.items[1])
             /\ ret' = ret
        ELSE /\ pc' = "done"
             /\ links' = List(<< >>)
             /\ idx' = Num(0)
             /\ calls' = calls
             /\ ret' = Returned(ManyResponse(<< >>))
  /\ UNCHANGED <<args, responseFormat, count, range, PlaylistData>>

ManyResume ==
  /\ args.op = "Video.getDownloadLinkForMany" /\ pc = "await_video"
  /\ \E outcome \in VideoOutcomes :
       LET videoUrls == NormalizeVideoUrls(args.videoUrls)
           i == idx.h \div 2
           downloadResult == ManyDownloadLink(outcome, videoUrls, i, args.types, args.qualitys)
           pushed == Append(links.items, ManySlot(downloadResult))
       IN /\ links' = List(pushed)
          /\ idx' = Num(2 * (i + 1))
          /\ IF i + 1 < LengthOf(videoUrls)
             THEN /\ pc' = "await_video"
                  /\ calls' = Issue(Settle(outcome), "ytdl.getInfo", videoUrls.items[i + 2])
                  /\ ret' = ret
             ELSE /\ pc' = "done"
                  /\ calls' = Settle(outcome)
                  /\ ret' = Returned(ManyResponse(pushed))
  /\ UNCHANGED <<args, responseFormat, count, range, PlaylistData>>

(* Playlist.numberVideo *)
NumberVideoCall ==
  /\ args.op = "Playlist.numberVideo" /\ pc = "start"
  /\ pc' = "await_count"
  /\ calls' = Issue(calls, "ytpl", args.url)
  /\ UNCHANGED <<args, responseFormat, count, range, PlaylistData, links, idx, ret>>

NumberVideoResume ==
  /\ args.op = "Playlist.numberVideo" /\ pc = "await_count"
  /\ \E outcome \in CountOutcomes :
       /\ calls' = Settle(outcome)
       /\ ret' = Returned(numberVideo(outcome))
  /\ pc' = "done"
  /\ UNCHANGED <<args, responseFormat, count, range, PlaylistData, links, idx>>

(* Playlist.getInfo, with #add_download_links *)
PlaylistGetInfoCall ==
  /\ args.op = "Playlist.getInfo" /\ pc = "start"
  /\ pc' = "await_playlist"
  /\ calls' = Issue(calls, "ytpl", args.url)
  /\ UNCHANGED <<args, responseFormat, count, range, PlaylistData, links, idx, ret>>

PlaylistGetInfoResume ==
  /\ args.op = "Playlist.getInfo" /\ pc = "await_playlist"
  /\ \E outcome \in PlaylistOutcomes :
       LET r == Playlist_getInfo(outcome, args.url)
       IN IF ~r.err /\ args.withDownloadLinks /\ Len(r.PlaylistData.videos) > 0
          THEN /\ PlaylistData' = r.PlaylistData
               /\ idx' = Num(2)
               /\ pc' = "await_video"
               /\ calls' = Issue(Settle(outcome), "ytdl.getInfo", r.PlaylistData.videos[1].video_url)
               /\ ret' = ret
          ELSE /\ PlaylistData' = r.PlaylistData
               /\ idx' = idx
               /\ pc' = "done"
               /\ calls' = Settle(outcome)
               /\ ret' = Returned(r)
  /\ UNCHANGED <<args, responseFormat, count, range, links>>

AddDownloadLinksResume ==
  /\ args.op = "Playlist.getInfo" /\ pc = "await_video"
  /\ \E outcome \in VideoOutcomes :
       LET videoNumber == idx.h \div 2
           video_url == PlaylistData.videos[videoNumber].video_url
           added == [PlaylistData EXCEPT !.videos[videoNumber].formats =
                                            AddedFormats(outcome, video_url, videoNumber)]
       IN /\ PlaylistData' = added
          /\ idx' = Num(idx.h + 2)
          /\ IF videoNumber < Len(PlaylistData.videos)
             THEN /\ pc' = "await_video"
                  /\ calls' = Issue(Settle(outcome), "ytdl.getInfo",
                                    PlaylistData.videos[videoNumber + 1].video_url)
                  /\ ret' = ret
             ELSE /\ pc' = "done"
                  /\ calls' = Settle(outcome)
                  /\ ret' = Returned(PlaylistResponse(added, FALSE, << >>))
  /\ UNCHANGED <<args, responseFormat, count, range, links>>

(* Playlist.getDownloadsLinks *)
DownloadsLinksCall ==
  /\ args.op = "Playlist.getDownloadsLinks" /\ pc = "start"
  /\ LET VideoDataType == MergedOption(args.options.VideoDataType, Str(json))
     IN IF NormalizeThrows(VideoDataType)
        THEN /\ pc' = "done"
             /\ ret' = Rejected(<<"TypeError: VideoDataType?.toLowerCase is not a function">>)
             /\ UNCHANGED <<responseFormat, calls>>
        ELSE /\ responseFormat' = NormalizeDataType(VideoDataType)
             /\ pc' = "await_count"
             /\ calls' = Issue(calls, "ytpl", args.url)
             /\ ret' = ret
  /\ UNCHANGED <<args, count, range, PlaylistData, links, idx>>

DownloadsLinksCountResume ==
  /\ args.op = "Playlist.getDownloadsLinks" /\ pc = "await_count"
  /\ \E outcome \in CountOutcomes :
       LET validated == prepare_from_to(outcome, MergedOption(args.options.from, Null),
                                        MergedOption(args.options.to, Null))
       IN /\ count' = numberVideo(outcome)
          /\ range' = validated
          /\ IF ValidationFailed(validated)
             THEN /\ pc' = "done"
                  /\ calls' = Settle(outcome)
                  /\ ret' = Returned(DownloadResponse(Null, TRUE, validated.msg_err))
             ELSE /\ pc' = "await_playlist"
                  /\ calls' = Issue(Settle(outcome), "ytpl", args.url)
                  /\ ret' = ret
  /\ UNCHANGED <<args, responseFormat, PlaylistData, links, idx>>

\* the loop has run up to its next await or to its end
LoopContinues(settled, data, loop) ==
  /\ links' = loop.downloadLinks
  /\ idx' = loop.videoIndex
  /\ IF loop.awaiting
     THEN /\ pc' = "await_video"
          /\ calls' = Issue(settled, "ytdl.getInfo", videoUrlAt(data, loop.videoIndex))
          /\ ret' = ret
     ELSE /\ pc' = "done"
          /\ calls' = settled
          /\ ret' = Returned(BatchResponse(loop.downloadLinks))

DownloadsLinksPlaylistResume ==
  /\ args.op = "Playlist.getDownloadsLinks" /\ pc = "await_playlist"
  /\ \E outcome \in PlaylistOutcomes :
       LET r == Playlist_getInfo(outcome, args.url)
       IN IF r.err
          THEN /\ pc' = "done"
               /\ calls' = Settle(outcome)
               /\ ret' = Returned(DownloadResponse(Null, TRUE,
                                    <<"Error in download playlist data: ">> \o r.err_msg))
               /\ UNCHANGED <<PlaylistData, links, idx>>
          ELSE /\ PlaylistData' = r.PlaylistData
               /\ LoopContinues(Settle(outcome), r.PlaylistData,
                                RunLoop(range.from, range.to, r.PlaylistData, responseFormat,
                                        EmptyLinks(responseFormat)))
  /\ UNCHANGED <<args, responseFormat, count, range>>

DownloadsLinksVideoResume ==
  /\ args.op = "Playlist.getDownloadsLinks" /\ pc = "await_video"
  /\ \E outcome \in VideoOutcomes :
       LET types == MergedOption(args.options.types, List(<<"video and audio">>))
           qualitys == MergedOption(args.options.qualitys, Object(D_Q))
           downloadResult == getDownloadLink(outcome, videoUrlAt(PlaylistData, idx), idx,
                                             types, qualitys)
           added == addLink(links, responseFormat, LinkOf(downloadResult))
       IN LoopContinues(Settle(outcome), PlaylistData,
                        RunLoop(Num(idx.h + 2), range.to, PlaylistData, responseFormat, added))
  /\ UNCHANGED <<args, responseFormat, count, range, PlaylistData>>

Next ==
  \/ VideoGetInfoCall \/ VideoGetInfoResume
  \/ GetDownloadLinkCall \/ GetDownloadLinkResume
  \/ ManyCall \/ ManyResume
  \/ NumberVideoCall \/ NumberVideoResume
  \/ PlaylistGetInfoCall \/ PlaylistGetInfoResume \/ AddDownloadLinksResume
  \/ DownloadsLinksCall \/ DownloadsLinksCountResume
  \/ DownloadsLinksPlaylistResume \/ DownloadsLinksVideoResume

Spec == Init /\ [][Next]_vars

(***************************************************************************)
(* The range validator on its own: #prepare_from_to applied to every       *)
(* from / to of RangeInputs and every answer to the count request.         *)
(***************************************************************************)
InitRange ==
  /\ args \in [op : {"Playlist.#prepare_from_to"}, url : {PlaylistUrl},
               from : RangeInputs, to : RangeInputs]
  /\ Locals0

PrepareFromToCall ==
  /\ args.op = "Playlist.#prepare_from_to" /\ pc = "start"
  /\ pc' = "await_count"
  /\ calls' = Issue(calls, "ytpl", args.url)
  /\ UNCHANGED <<args, responseFormat, count, range, PlaylistData, links, idx, ret>>

PrepareFromToResume ==
  /\ args.op = "Playlist.#prepare_from_to" /\ pc = "await_count"
  /\ \E outcome \in CountOutcomes :
       /\ calls' = Settle(outcome)
       /\ count' = numberVideo(outcome)
       /\ range' = prepare_from_to(outcome, args.from, args.to)
       /\ ret' = Returned(prepare_from_to(outcome, args.from, args.to))
  /\ pc' = "done"
  /\ UNCHANGED <<args, responseFormat, PlaylistData, links, idx>>

NextRange == PrepareFromToCall \/ PrepareFromToResume

SpecRange == InitRange /\ [][NextRange]_vars

(***************************************************************************)
(* The format pipeline on its own: #prepare_formats, #filter_formats_by_   *)
(* types, #filter_formats_by_qualitys and getDownloadLink applied to every *)
(* list of at most MaxFormats raw descriptors and every selector.          *)
(***************************************************************************)
imageJpeg == <<"i", "m", "a", "g", "e", "/", "j", "p", "e", "g">>

\* a descriptor with a mimeType and neither video nor audio
NoStreams == Descriptor(Str(imageJpeg), Null, FALSE, "itag=9")

RawDescriptors == { VideoOnly720, Muxed360, Muxed720, AudioOnly, NoMimeType, NoStreams }

RawFormatLists == ListsUpTo(RawDescriptors, MaxFormats)

FormatOutcomes ==
  { Throws(<<"Not a YouTube domain">>) }
  \cup { Resolves(RawVideoInfo("a", formats)) : formats \in RawFormatLists }

SongTitle == RawVideoInfo("a", << >>).videoDetails.title

\* the lists #prepare_formats hands to the filters
PreparedLists == { prepare_formats(formats, Num(2), SongTitle) : formats \in RawFormatLists }

Q720P == <<"7", "2", "0", "P">>

TypeSelectors ==
  { Null, Undefined, Str(<<"v", "i", "d", "e", "o">>), Object(<< >>),
    List(<< >>), List(<<"video">>), List(<<"audio", "video and audio">>), List(<<"others">>) }

QualitySelectors ==
  { Undefined, Null, Object(<< >>),
    Object(<< [key |-> Q720p, value |-> FALSE] >>),
    Object(<< [key |-> Q720p, value |-> TRUE] >>),
    Object(<< [key |-> Q720P, value |-> TRUE] >>),
    Object(<< [key |-> Q360p, value |-> TRUE], [key |-> Q720p, value |-> TRUE] >>) }

InitFormats ==
  /\ args \in
       [op : {"Video.#prepare_formats"}, formats : RawFormatLists, videoNumber : {Num(2), Num(4)}]
       \cup [op : {"Video.#filter_formats_by_types"}, formats : PreparedLists, types : TypeSelectors]
       \cup [op : {"Video.#filter_formats_by_qualitys"}, formats : PreparedLists,
             qualitys : QualitySelectors]
       \cup [op : {"Video.getDownloadLink"}, videoUrl : {Str(<<"https://youtu.be/", "a">>)},
             videoNumber : {Undefined, Num(4)},
             types : {Undefined, Null, List(<<"video">>), List(<<"audio", "video and audio">>)},
             qualitys : {Undefined, Object(<< [key |-> Q720p, value |-> TRUE] >>),
                         Object(<< [key |-> Q360p, value |-> TRUE], [key |-> Q720p, value |-> TRUE] >>)}]
       \cup [op : {"Video.getInfo"}, url : {Str(<<"https://youtu.be/", "a">>)},
             getInfoOptions : [VideoNumber : {Absent}, VideoDataType : {Absent},
                               types : {Absent, Null, List(<<"video">>)},
                               qualitys : {Absent, Object(<< [key |-> Q720p, value |-> TRUE] >>)}]]
       \cup [op : {"Video.#filter_formats_by_types, #filter_formats_by_qualitys"},
             formats : PreparedLists,
             types : {Null, List(<<"video">>), List(<<"audio", "video and audio">>)},
             qualitys : {Undefined, Object(<< [key |-> Q720p, value |-> TRUE] >>),
                         Object(<< [key |-> Q360p, value |-> TRUE], [key |-> Q720p, value |-> TRUE] >>)}]
  /\ Locals0

PrepareFormatsApply ==
  /\ args.op = "Video.#prepare_formats" /\ pc = "start"
  /\ pc' = "done"
  /\ ret' = Returned(List(prepare_formats(args.formats, args.videoNumber, SongTitle)))
  /\ UNCHANGED <<args, responseFormat, count, range, PlaylistData, links, idx, calls>>

FilterByTypesApply ==
  /\ args.op = "Video.#filter_formats_by_types" /\ pc = "start"
  /\ pc' = "done"
  /\ ret' = Returned(List(filter_formats_by_types(args.formats, args.types)))
  /\ UNCHANGED <<args, responseFormat, count, range, PlaylistData, links, idx, calls>>

FilterByQualitysApply ==
  /\ args.op = "Video.#filter_formats_by_qualitys" /\ pc = "start"
  /\ pc' = "done"
  /\ ret' = Returned(List(filter_formats_by_qualitys(args.formats, args.qualitys)))
  /\ UNCHANGED <<args, responseFormat, count, range, PlaylistData, links, idx, calls>>

\* Video.getDownloadLink resumed with any of the answers of FormatOutcomes
GetDownloadLinkOfFormats ==
  /\ args.op = "Video.getDownloadLink" /\ pc = "await_video"
  /\ \E outcome \in FormatOutcomes :
       /\ calls' = Settle(outcome)
       /\ ret' = Returned(getDownloadLink(outcome, args.videoUrl, args.videoNumber,
                                          args.types, args.qualitys))
  /\ pc' = "done"
  /\ UNCHANGED <<args, responseFormat, count, range, PlaylistData, links, idx>>

\* Video.getInfo resumed with any of the answers of FormatOutcomes
VideoGetInfoOfFormats ==
  /\ args.op = "Video.getInfo" /\ pc = "await_video"
  /\ \E outcome \in FormatOutcomes :
       /\ calls' = Settle(outcome)
       /\ ret' = Returned(Video_getInfo(outcome, args.getInfoOptions))
  /\ pc' = "done"
  /\ UNCHANGED <<args, responseFormat, count, range, PlaylistData, links, idx>>

\* the two filters applied one after the other, in the order of Video.getInfo
\* (types first) and in the other order
FilterChainApply ==
  /\ args.op = "Video.#filter_formats_by_types, #filter_formats_by_qualitys" /\ pc = "start"
  /\ pc' = "done"
  /\ ret' = Returned([typesFirst |->
                        filter_formats_by_qualitys(filter_formats_by_types(args.formats, args.types),
                                                   args.qualitys),
                      qualitysFirst |->
                        filter_formats_by_types(filter_formats_by_qualitys(args.formats, args.qualitys),
                                                args.types)])
  /\ UNCHANGED <<args, responseFormat, count, range, PlaylistData, links, idx, calls>>

NextFormats ==
  \/ PrepareFormatsApply
  \/ FilterByTypesApply
  \/ FilterByQualitysApply
  \/ GetDownloadLinkCall
  \/ GetDownloadLinkOfFormats
  \/ VideoGetInfoCall
  \/ VideoGetInfoOfFormats
  \/ FilterChainApply

SpecFormats == InitFormats /\ [][NextFormats]_vars

(***************************************************************************)
(* Properties of the range validator, checked under SpecRange.             *)
(***************************************************************************)
Validated == args.op = "Playlist.#prepare_from_to" /\ pc = "done"
CountObtained == Validated /\ ~count.err

\* the values the documentation calls "null or non-numeric"
NullOrNonNumeric == { Null, Undefined, NaN, Str(<<"a", "b">>) }

\* the requested from / to as numbers, with the documented defaults
RequestedFrom == IF args.from \in NullOrNonNumeric THEN Num(2) ELSE ToNumber(args.from)
RequestedTo == IF args.to \in NullOrNonNumeric THEN count.numberVideo ELSE ToNumber(args.to)

IsNumber(v) == v.k = "number"
AtMostZero(v) == IsNumber(v) /\ v.h <= 0
Exceeds(a, b) == IsNumber(a) /\ IsNumber(b) /\ a.h > b.h

\* C8: whenever the validator reports success, from and to are integers with
\* 1 <= from <= to <= totalCount, totalCount being the count the provider reported.
C8_ValidRangeWithinPlaylist ==
  Validated /\ range.succ =>
    /\ IsInteger(range.from) /\ IsInteger(range.to)
    /\ IsNumber(count.numberVideo)
    /\ 2 <= range.from.h
    /\ range.from.h <= range.to.h
    /\ range.to.h <= count.numberVideo.h

\* C9: a null or non-numeric from is normalised to 1 and a null or non-numeric to
\* to totalCount before validating (the normalised values are the ones returned on
\* success and the ones quoted in the error message on failure); with both absent
\* and a playlist of N >= 1 videos the validated range is {from: 1, to: N}.
C9_DefaultsOfFromAndTo ==
  CountObtained =>
    /\ (args.from \in NullOrNonNumeric =>
          IF range.succ THEN range.from = Num(2) ELSE range.msg_err[2] = "1")
    /\ (args.to \in NullOrNonNumeric =>
          IF range.succ THEN range.to = count.numberVideo
          ELSE range.msg_err[4] = NumberToString(count.numberVideo))
    /\ (args.from = Null /\ args.to = Null /\ IsNumber(count.numberVideo) /\ count.numberVideo.h >= 2 =>
          range = [succ |-> TRUE, msg_err |-> << >>, from |-> Num(2), to |-> count.numberVideo])

C9_Witness ==
  /\ CountObtained
  /\ args.from = Undefined /\ args.to = Str(<<"a", "b">>)
  /\ count.numberVideo = Num(4)
  /\ range.succ /\ range.from = Num(2) /\ range.to = Num(4)

\* C10: once the count is known the validator fails with exactly one error, chosen
\* in the order "must be greater than 0" (from <= 0 or to <= 0), "from must be less
\* than or equal to to" (from > to), "exceeds playlist size" (from or to > totalCount);
\* it succeeds iff none of the three holds; on every failure from and to are null.
C10_ErrorPrecedence ==
  Validated =>
    /\ (~range.succ => range.from = Null /\ range.to = Null)
    /\ (count.err => ~range.succ)
    /\ (~count.err =>
          LET f == RequestedFrom
              t == RequestedTo
              n == count.numberVideo
              nonPositive == AtMostZero(f) \/ AtMostZero(t)
              inverted == Exceeds(f, t)
              tooLarge == Exceeds(f, n) \/ Exceeds(t, n)
          IN /\ range.succ <=> ~nonPositive /\ ~inverted /\ ~tooLarge
             /\ (nonPositive =>
                   Len(range.msg_err) = 5 /\ range.msg_err[5] = "' must be greater than 0")
             /\ (~nonPositive /\ inverted =>
                   Len(range.msg_err) = 5 /\ range.msg_err[3] = "' must be less than or equal to To '")
             /\ (~nonPositive /\ ~inverted /\ tooLarge =>
                   Len(range.msg_err) = 7
                   /\ range.msg_err[5] = "' must not be greater than the number of videos in playlist ("))

C10_Witness ==
  /\ CountObtained
  /\ args.from = Num(6) /\ args.to = Num(4) /\ count.numberVideo = Num(2)
  /\ ~range.succ
  /\ range.msg_err[3] = "' must be less than or equal to To '"

(***************************************************************************)
(* Properties of the invocations, checked under Spec.                      *)
(***************************************************************************)
ReturnedBy(operation) == args.op = operation /\ ret.state = "returned"

EnvelopeData(e) ==
  CASE args.op = "Video.getInfo" -> e.VideoData
    [] args.op = "Playlist.numberVideo" -> e.numberVideo
    [] args.op = "Playlist.getInfo" -> e.PlaylistData
    [] OTHER -> e.results

\* C1: every envelope returned by the six operations has err = true only with null
\* data and a non-empty err_msg, and err = false only with err_msg = "".
C1_EnvelopeContract ==
  ret.state = "returned" =>
    IF ret.value.err
    THEN EnvelopeData(ret.value) = Null /\ ret.value.err_msg # << >>
    ELSE ret.value.err_msg = << >>

\* C2: Video.getInfo, Video.getDownloadLink, Video.getDownloadLinkForMany and
\* Playlist.getDownloadsLinks never end by throwing or rejecting, whatever the options.
C2_NeverRejects ==
  args.op \in {"Video.getInfo", "Video.getDownloadLink", "Video.getDownloadLinkForMany",
               "Playlist.getDownloadsLinks"}
    => ret.state # "rejected"

\* the batch of getDownloadsLinks: validation passed and the playlist was fetched
PlaylistFetched == Len(calls) >= 2 /\ calls[2].done /\ calls[2].outcome.ok
Batch == ReturnedBy("Playlist.getDownloadsLinks") /\ range.succ /\ PlaylistFetched

RECURSIVE Lines(_, _)
\* the lines of a text, each ended by a line feed
Lines(s, line) ==
  IF s = << >> THEN (IF line = << >> THEN << >> ELSE <<line>>)
  ELSE IF Head(s) = "\n" THEN <<line>> \o Lines(Tail(s), << >>)
  ELSE Lines(Tail(s), Append(line, Head(s)))

\* the slots of a result, as texts
SlotTexts(results) ==
  IF results.k = "list"
  THEN [i \in 1..Len(results.items) |-> Interpolate(results.items[i])]
  ELSE Lines(results.s, << >>)

Ordinal(k) == Num(range.from.h + 2 * (k - 1))

\* the fetched entry of an ordinal, when it has one with a video_url
HasEntry(ordinal) ==
  /\ ordinal.h % 2 = 0
  /\ ordinal.h \div 2 \in 1..Len(calls[2].outcome.value.items)
  /\ calls[2].outcome.value.items[ordinal.h \div 2].url.k = "string"

EntryUrl(ordinal) == calls[2].outcome.value.items[ordinal.h \div 2].url

\* the provider call made for the k-th slot: the calls follow the slots in order
VideoCallOf(k) == calls[2 + Cardinality({ j \in 1..k : HasEntry(Ordinal(j)) })]

\* what Video.getDownloadLink answers for the k-th slot
DownloadLinkOf(k) ==
  getDownloadLink(VideoCallOf(k).outcome, EntryUrl(Ordinal(k)), Ordinal(k),
                  MergedOption(args.options.types, List(<<"video and audio">>)),
                  MergedOption(args.options.qualitys, Object(D_Q)))

\* C3: a batch over the validated [from, to] has exactly to - from + 1 slots, the
\* k-th for ordinal from + k - 1: the placeholder "Video URL not found | N: <i>" when
\* the entry is missing or has no video_url, what getDownloadLink answered otherwise.
C3_OneSlotPerOrdinal ==
  Batch =>
    LET slots == SlotTexts(ret.value.results)
    IN /\ IsNumber(range.from) /\ IsNumber(range.to)
       /\ 2 * Len(slots) = range.to.h - range.from.h + 2
       /\ \A k \in 1..Len(slots) :
            IF HasEntry(Ordinal(k))
            THEN slots[k] \in { Interpolate(DownloadLinkOf(k)),
                                Interpolate(DownloadLinkOf(k).results),
                                DownloadLinkOf(k).err_msg }
            ELSE slots[k] = <<"Video URL not found | N: ", NumberToString(Ordinal(k))>>

\* C4: the slot of an ordinal whose entry exists is the results field of
\* getDownloadLink (its err_msg text when it failed), not the whole envelope: the
\* array element in json mode, the line in text mode.
C4_SlotIsResultsField ==
  Batch =>
    \A k \in 1..Len(SlotTexts(ret.value.results)) :
      HasEntry(Ordinal(k)) =>
        LET downloadResult == DownloadLinkOf(k)
            expected == IF downloadResult.err
                        THEN {Null, Str(downloadResult.err_msg)}
                        ELSE {downloadResult.results}
        IN IF ret.value.results.k = "list"
           THEN ret.value.results.items[k] \in expected
           ELSE SlotTexts(ret.value.results)[k] \in { Interpolate(e) : e \in expected }

\* C5: once validation and the playlist fetch have succeeded the batch returns
\* err = false and err_msg = "", whichever per-video calls fail; err = true comes
\* only from a validation failure or a playlist fetch failure.
C5_BatchErrOnlyFromGate ==
  ReturnedBy("Playlist.getDownloadsLinks") =>
    /\ (ret.value.err <=> ~(range.succ /\ PlaylistFetched))
    /\ (~ret.value.err => ret.value.err_msg = << >>)

FailedVideoCalls == { i \in 1..Len(calls) : calls[i].api = "ytdl.getInfo" /\ calls[i].done /\ ~calls[i].outcome.ok }

C5_Witness ==
  /\ Batch
  /\ Cardinality(FailedVideoCalls) >= 2
  /\ Cardinality(FailedVideoCalls) = Len(calls) - 2
  /\ ~ret.value.err

\* C6 as stated: getDownloadLinkForMany returns err = false for every videoUrls,
\* null included.
C6_ManyNeverErr ==
  ReturnedBy("Video.getDownloadLinkForMany") => ~ret.value.err

\* C6 amended: err = false for every list, single string or absent videoUrls and
\* every combination of per-item failures; null gives err = true with null results.
C6_ManyErrOnlyOnNull ==
  ReturnedBy("Video.getDownloadLinkForMany") =>
    IF args.videoUrls = Null
    THEN ret.value.err /\ ret.value.results = Null /\ ret.value.err_msg # << >>
    ELSE ~ret.value.err /\ ret.value.err_msg = << >>

C6_Witness ==
  /\ ReturnedBy("Video.getDownloadLinkForMany")
  /\ args.videoUrls.k = "list" /\ Len(args.videoUrls.items) >= 2
  /\ Cardinality(FailedVideoCalls) = Len(args.videoUrls.items)
  /\ ~ret.value.err

\* the list getDownloadLinkForMany works on: a single string is the one-element list
UrlList == IF args.videoUrls.k = "string" THEN <<args.videoUrls>> ELSE args.videoUrls.items

ManyDownloadLinkOf(i) ==
  getDownloadLink(calls[i].outcome, UrlList[i], Num(2 * i), args.types, args.qualitys)

ManySlotText(i) ==
  IF ManyDownloadLinkOf(i).err THEN ManyDownloadLinkOf(i).err_msg ELSE ManyDownloadLinkOf(i).results.s

\* C7: for n URLs there are n slots in input order, slot i being getDownloadLink
\* with ordinal i (its results when it succeeded, its err_msg when it failed), every
\* URL being asked for whatever happened before; results is the slots joined by a
\* blank line; a single string is treated as the one-element list.
C7_ManySlotsInOrder ==
  ReturnedBy("Video.getDownloadLinkForMany") /\ args.videoUrls.k \in {"list", "string"} =>
    /\ Len(calls) = Len(UrlList)
    /\ \A i \in 1..Len(calls) : calls[i].done /\ calls[i].url = UrlList[i]
    /\ ret.value.results = Str(Join([i \in 1..Len(UrlList) |-> ManySlotText(i)], <<"\n\n">>))

C7_Witness ==
  /\ ReturnedBy("Video.getDownloadLinkForMany")
  /\ args.videoUrls.k = "list" /\ Len(args.videoUrls.items) = 3
  /\ args.videoUrls.items[1] # args.videoUrls.items[2]
  /\ ~calls[1].outcome.ok /\ calls[2].outcome.ok /\ ~calls[3].outcome.ok

(***************************************************************************)
(* The gates of Playlist.getDownloadsLinks, checked under Spec.            *)
(***************************************************************************)
DownloadsLinks == args.op = "Playlist.getDownloadsLinks"

\* the validator has answered
RangeValidated == DownloadsLinks /\ count # Undefined

\* C11: when range validation fails (invalid range or no count) the call returns
\* {results: null, err: true, err_msg: <validator message>} at once; the playlist
\* entries are never fetched and no per-video provider call is ever issued.
C11_ValidationIsHardGate ==
  RangeValidated /\ ~range.succ =>
    /\ ret = Returned(DownloadResponse(Null, TRUE, range.msg_err))
    /\ range.msg_err # << >>
    /\ Len(calls) = 1
    /\ \A i \in 1..Len(calls) : calls[i].api # "ytdl.getInfo"

C11_Witness ==
  /\ RangeValidated /\ ~range.succ /\ ~count.err
  /\ args.options.from = Num(6) /\ args.options.to = Num(2)
  /\ ret.state = "returned" /\ ret.value.err
  /\ Len(calls) = 1

\* the envelope carries one of the three range errors of the validator
RangeErrorSurfaced ==
  /\ ReturnedBy("Playlist.getDownloadsLinks")
  /\ ret.value.err
  /\ Head(ret.value.err_msg) = "ERROR: From '"

\* C12: a malformed range (non-positive, inverted, out-of-bounds) is surfaced as a
\* validation error before any provider call has been issued in the invocation.
C12_RangeErrorBeforeAnyProviderCall ==
  RangeErrorSurfaced => calls = << >>

\* the playlist fetch of the invocation has failed
PlaylistFetchFailed ==
  DownloadsLinks /\ Len(calls) >= 2 /\ calls[2].done /\ ~calls[2].outcome.ok

\* C13: when validation succeeds and the fetch of the playlist entries fails, the
\* call returns {results: null, err: true} with a non-empty message that wraps the
\* cause; no per-video provider call is issued and nothing partial is returned.
C13_PlaylistFetchFailureIsFatal ==
  PlaylistFetchFailed =>
    /\ range.succ
    /\ ret = Returned(DownloadResponse(Null, TRUE,
                        <<"Error in download playlist data: ", "Failed to get playlist info: ">>
                        \o calls[2].outcome.message))
    /\ Len(calls) = 2
    /\ links = Undefined

C13_Witness ==
  /\ PlaylistFetchFailed
  /\ calls[2].outcome.message = <<"Not a YouTube domain">>
  /\ range.succ /\ range.from = Num(2) /\ range.to = Num(6)
  /\ ret.state = "returned" /\ ret.value.err /\ ret.value.results = Null

(***************************************************************************)
(* Properties of the format pipeline.                                      *)
(***************************************************************************)
\* the records of s at the positions of I, in the order of s
Pick(s, I) ==
  LET upTo[n \in 0..Len(s)] ==
        IF n = 0 THEN << >>
        ELSE IF n \in I THEN Append(upTo[n - 1], s[n]) ELSE upTo[n - 1]
  IN upTo[Len(s)]

\* label occurs in title, letter case ignored
ContainsIgnoringCase(title, label) ==
  \E p \in 1..(Len(title) - Len(label) + 1) :
    toLowerCase(SubSeq(title, p, p + Len(label) - 1)) = toLowerCase(label)

\* the labels a QualitySelector enables once merged over the defaults
EnabledLabels(qualitys) ==
  LET merged == Spread(D_Q, DefaultParameter(qualitys, Object(<< >>)))
  IN { merged[i].key : i \in { j \in 1..Len(merged) : merged[j].value } }

HasEnabledLabel(title, qualitys) ==
  EnabledLabels(qualitys) = {} \/ \E label \in EnabledLabels(qualitys) : ContainsIgnoringCase(title, label)

TypeSelected(type, types) == types.k = "list" => \E t \in 1..Len(types.items) : types.items[t] = type

\* the answer of the provider to the one call of getDownloadLink / getInfo
Answer == calls[1].outcome

\* what getDownloadLink passes on as its types, qualitys and videoNumber
LinkTypes == DefaultParameter(args.types, List(<<"video and audio">>))
LinkQualitys == DefaultParameter(args.qualitys, Object(<< >>))
LinkNumber == DefaultParameter(args.videoNumber, Num(2))

\* the record built from one raw descriptor that has a mimeType
Built(descriptor) == prepare_formats(<<descriptor>>, LinkNumber, Answer.value.videoDetails.title)[1]

\* the positions of the raw descriptors that pass the three conditions
Surviving ==
  { i \in 1..Len(Answer.value.formats) :
      /\ Answer.value.formats[i].mimeType # Absent
      /\ TypeSelected(Built(Answer.value.formats[i]).type, LinkTypes)
      /\ HasEnabledLabel(Built(Answer.value.formats[i]).title, LinkQualitys) }

FirstSurviving == CHOOSE i \in Surviving : \A j \in Surviving : i <= j

\* C14: when getDownloadLink succeeds with a non-empty filtered list, its URL is
\* the one built from the first descriptor, in the provider's order, that has a
\* mimeType, a type in types and a title with an enabled quality label (any title
\* when none is enabled); a later one is never chosen over an earlier one.
C14_FirstMatchWins ==
  ReturnedBy("Video.getDownloadLink") /\ Answer.ok /\ Surviving # {} =>
    ret.value = DownloadResponse(Str(Built(Answer.value.formats[FirstSurviving]).url), FALSE, << >>)

C14_Witness ==
  /\ ReturnedBy("Video.getDownloadLink") /\ Answer.ok
  /\ Answer.value.formats = <<Muxed360, VideoOnly720, Muxed720>>
  /\ args.types = Null
  /\ LinkQualitys = Object(<< [key |-> Q720p, value |-> TRUE] >>)
  /\ Surviving = {2, 3}
  /\ ret.value.results = Str(Built(VideoOnly720).url)

\* C15: the quality filter returns its input unchanged when the merged selector
\* enables no label, and otherwise exactly the records whose title contains an
\* enabled label (case-insensitive): each of them is kept, whatever its position
\* and whatever records precede it, and every other record is dropped.
C15_QualityFilterKeepsEveryMatch ==
  ReturnedBy("Video.#filter_formats_by_qualitys") =>
    ret.value.items =
      Pick(args.formats, { i \in 1..Len(args.formats) : HasEnabledLabel(args.formats[i].title, args.qualitys) })

\* the context getDownloadLink quotes in its messages
ContextInfo == <<"| N: ", NumberToString(LinkNumber), " | url: ">> \o args.videoUrl.s

\* C16: getDownloadLink on a video of which no format survives the filters returns
\* err = false, err_msg = "" and results = "No download link found | N: <n> | url:
\* <url>"; a provider failure returns err = true, results = null and an err_msg
\* that begins "ERROR: In Get Download Link | N: <n> | url: <url> | ERROR MESSAGE: ".
C16_NoLinkIsNotAnError ==
  ReturnedBy("Video.getDownloadLink") =>
    IF Answer.ok
    THEN Surviving = {} =>
           ret.value = DownloadResponse(Str(<<"No download link found ">> \o ContextInfo), FALSE, << >>)
    ELSE /\ ret.value.err /\ ret.value.results = Null
         /\ LET prefix == <<"ERROR: In Get Download Link ">> \o ContextInfo \o <<" | ERROR MESSAGE: ">>
            IN /\ Len(ret.value.err_msg) >= Len(prefix)
               /\ SubSeq(ret.value.err_msg, 1, Len(prefix)) = prefix

C16_Witness ==
  /\ ReturnedBy("Video.getDownloadLink") /\ Answer.ok
  /\ Answer.value.formats = <<AudioOnly, VideoOnly720>>
  /\ args.types = Undefined
  /\ Surviving = {}
  /\ ~ret.value.err

\* C17: for a TypeSelector that is not a list (null, undefined, string, object)
\* the type filter returns its input unchanged; for a list it returns exactly the
\* records whose type is a member of the list, in input order.
C17_TypeFilter ==
  ReturnedBy("Video.#filter_formats_by_types") =>
    ret.value.items =
      IF args.types.k = "list"
      THEN Pick(args.formats, { i \in 1..Len(args.formats) : TypeSelected(args.formats[i].type, args.types) })
      ELSE args.formats

C17_Witness ==
  /\ ReturnedBy("Video.#filter_formats_by_types")
  /\ args.types = List(<<"audio", "video and audio">>)
  /\ Len(args.formats) = 3 /\ Len(ret.value.items) = 2
  /\ args.formats[2].type = "video"
  /\ ret.value.items = <<args.formats[1], args.formats[3]>>
  /\ args.formats[1] # args.formats[3]

\* C18: the empty list given as types means "no filtering": Video.getInfo with
\* types = [] returns the formats it returns with no type filter applied.
C18_EmptyTypesMeansNoFilter ==
  ReturnedBy("Video.getInfo") /\ args.getInfoOptions.types = List(<< >>) =>
    ret.value = Video_getInfo(Answer, [args.getInfoOptions EXCEPT !.types = Null])

\* the type the documentation gives a descriptor
DocumentedType(descriptor) ==
  LET hasVideo == descriptor.qualityLabel \notin {Null, Undefined}
      hasAudio == descriptor.hasAudio
  IN IF hasVideo /\ hasAudio THEN "video and audio"
     ELSE IF hasVideo THEN "video"
     ELSE IF hasAudio THEN "audio"
     ELSE "other"

\* C19: for every raw descriptor with a mimeType the built record's type is
\* "video and audio", "video", "audio" or "other" according to the streams it
\* has; the type is always one of these four values.
C19_TypeOfFormatRecord ==
  ReturnedBy("Video.#prepare_formats") =>
    LET withMimeType == Pick(args.formats, { i \in 1..Len(args.formats) : args.formats[i].mimeType # Absent })
    IN /\ Len(ret.value.items) = Len(withMimeType)
       /\ \A i \in 1..Len(withMimeType) :
            /\ ret.value.items[i].type = DocumentedType(withMimeType[i])
            /\ ret.value.items[i].type \in {"video and audio", "video", "audio", "other"}

(***************************************************************************)
(* The order of the provider calls of Playlist.getDownloadsLinks.          *)
(***************************************************************************)
InFlight == { i \in 1..Len(calls) : ~calls[i].done }

\* the ordinal of the playlist entry the i-th provider call fetches
OrdinalOfCall(i) ==
  CHOOSE n \in 1..Len(calls[2].outcome.value.items) : calls[2].outcome.value.items[n].url = calls[i].url

\* C20: within one getDownloadsLinks invocation at most one provider call is in
\* flight at any time: the count fetch completes before the playlist fetch is
\* issued, the playlist fetch before any video fetch, and the video fetch of an
\* ordinal before the video fetch of the next one.
C20_OneProviderCallAtATime ==
  DownloadsLinks =>
    /\ Cardinality(InFlight) <= 1
    /\ \A i \in 1..(Len(calls) - 1) : calls[i].done
    /\ \A i \in 1..Len(calls) : calls[i].api = (IF i <= 2 THEN "ytpl" ELSE "ytdl.getInfo")
    /\ \A i \in 3..Len(calls) :
         /\ \E n \in 1..Len(calls[2].outcome.value.items) :
              calls[2].outcome.value.items[n].url = calls[i].url
         /\ LessEq(range.from, Num(2 * OrdinalOfCall(i)))
         /\ LessEq(Num(2 * OrdinalOfCall(i)), range.to)
         /\ i > 3 => OrdinalOfCall(i - 1) < OrdinalOfCall(i)
    /\ (pc = "done" => InFlight = {})

C20_Witness ==
  /\ DownloadsLinks /\ pc = "await_video"
  /\ Len(calls) = 5
  /\ InFlight = {5}
  /\ OrdinalOfCall(3) = 1 /\ OrdinalOfCall(4) = 2 /\ OrdinalOfCall(5) = 3

(***************************************************************************)
(* The per-video calls of a batch, and its termination.  Every awaited     *)
(* provider call is assumed to complete: the fairness of SpecFair.         *)
(***************************************************************************)
SpecFair == Spec /\ WF_vars(Next)

\* the ordinals of [from, to] whose fetched entry exists with a video_url
ExistingOrdinals ==
  { n \in 1..Len(calls[2].outcome.value.items) :
      /\ HasEntry(Num(2 * n))
      /\ LessEq(range.from, Num(2 * n))
      /\ LessEq(Num(2 * n), range.to) }

VideoCallsFor(n) == { i \in 3..Len(calls) : calls[i].url = EntryUrl(Num(2 * n)) }

\* C21: once a batch has started, exactly one per-video provider call is made for
\* every ordinal of [from, to] whose entry exists, whether earlier ordinals failed
\* or not and whether that call fails or not (no retry, no skipping, no abort).
C21_OneCallPerExistingOrdinal ==
  Batch => \A n \in ExistingOrdinals : Cardinality(VideoCallsFor(n)) = 1

\* C21, second half: provided every provider call completes, the invocation of
\* getDownloadsLinks ends.
C21_EventuallyEnds == DownloadsLinks ~> (pc = "done")

\* C22: the two filters commute: for every sequence of records, every TypeSelector
\* and every QualitySelector, the type filter followed by the quality filter gives
\* the sequence the quality filter followed by the type filter gives.
C22_FiltersCommute ==
  ReturnedBy("Video.#filter_formats_by_types, #filter_formats_by_qualitys") =>
    ret.value.typesFirst = ret.value.qualitysFirst

\* the VideoNumber Video.getInfo works with
InfoNumber == DefaultParameter(MergedOption(args.getInfoOptions.VideoNumber, Num(2)), Num(2))

\* the positions of the raw descriptors that have a mimeType
WithMimeType == { i \in 1..Len(Answer.value.formats) : Answer.value.formats[i].mimeType # Absent }

\* the records built from the descriptors at the positions of I, in their order
BuiltAt(I) ==
  LET chosen == Pick(Answer.value.formats, I)
  IN [k \in 1..Len(chosen) |->
        prepare_formats(<<chosen[k]>>, InfoNumber, Answer.value.videoDetails.title)[1]]

\* C23: on success the formats of Video.getInfo are an order-preserving
\* subsequence of the provider's raw formats (nothing added, duplicated or
\* reordered) without any record built from a descriptor that lacks a mimeType;
\* such descriptors are dropped without turning the call into an error.
C23_FormatsAreSubsequence ==
  ReturnedBy("Video.getInfo") /\ Answer.ok =>
    /\ ~ret.value.err
    /\ ret.value.VideoData.k = "object" =>
         \E I \in SUBSET WithMimeType : ret.value.VideoData.formats = BuiltAt(I)

C23_Witness ==
  /\ ReturnedBy("Video.getInfo") /\ Answer.ok
  /\ Answer.value.formats = <<Muxed360, NoMimeType, VideoOnly720>>
  /\ args.getInfoOptions.types = List(<<"video">>)
  /\ ~ret.value.err
  /\ ret.value.VideoData.formats = BuiltAt({3})

(***************************************************************************)
(* Two invocations interleaved at their provider suspension points.  The   *)
(* variables hold the locals of the invocation that runs; the locals of    *)
(* the suspended one are kept aside in args.other, and Switch hands the    *)
(* thread over.  Every local of the code is call-scoped, so Switch swaps   *)
(* all of them.                                                            *)
(***************************************************************************)
\* the locals of an invocation that has not started
Fresh(invocation) ==
  [args |-> invocation, pc |-> "start", responseFormat |-> << >>, count |-> Undefined,
   range |-> NoRange, PlaylistData |-> Null, links |-> Undefined, idx |-> Undefined,
   calls |-> << >>, ret |-> Pending]

\* the locals of the invocation that runs
Running ==
  [args |-> [field \in DOMAIN args \ {"other"} |-> args[field]], pc |-> pc,
   responseFormat |-> responseFormat, count |-> count, range |-> range,
   PlaylistData |-> PlaylistData, links |-> links, idx |-> idx, calls |-> calls, ret |-> ret]

InterleavedGetInfo ==
  [op : {"Video.getInfo"}, url : {Str(<<"https://youtu.be/", "a">>)},
   getInfoOptions : [VideoNumber : {Absent}, VideoDataType : {Absent}, types : {Absent},
                     qualitys : {Object(<< [key |-> Q720p, value |-> TRUE] >>)}]]

InterleavedMany ==
  [op : {"Video.getDownloadLinkForMany"},
   videoUrls : {List(<<Str(<<"https://youtu.be/", "a">>), Str(<<"https://youtu.be/", "b">>)>>)},
   types : {Absent}, qualitys : {Absent}]

InterleavedDownloadsLinks ==
  [op : {"Playlist.getDownloadsLinks"}, url : {PlaylistUrl},
   options : [VideoDataType : {Absent}, types : {Absent}, from : {Absent}, to : {Absent},
              qualitys : {Absent}]]

\* the pairs of invocations that are interleaved
InterleavedPairs ==
  ((InterleavedGetInfo \cup InterleavedMany \cup InterleavedDownloadsLinks)
   \X (InterleavedGetInfo \cup InterleavedMany))
  \cup (InterleavedMany \X InterleavedDownloadsLinks)

InitTwo ==
  /\ args \in { pair[1] @@ [other |-> Fresh(pair[2])] : pair \in InterleavedPairs }
  /\ Locals0

\* a module-level links collection: the one local Switch would not swap
Switch_SharedLinks ==
  /\ args' = args.other.args @@ [other |-> Running]
  /\ pc' = args.other.pc
  /\ responseFormat' = args.other.responseFormat
  /\ count' = args.other.count
  /\ range' = args.other.range
  /\ PlaylistData' = args.other.PlaylistData
  /\ links' = links
  /\ idx' = args.other.idx
  /\ calls' = args.other.calls
  /\ ret' = args.other.ret

\* the running invocation is suspended (or has ended) and the other one resumes
Switch ==
  /\ args' = args.other.args @@ [other |-> Running]
  /\ pc' = args.other.pc
  /\ responseFormat' = args.other.responseFormat
  /\ count' = args.other.count
  /\ range' = args.other.range
  /\ PlaylistData' = args.other.PlaylistData
  /\ links' = args.other.links
  /\ idx' = args.other.idx
  /\ calls' = args.other.calls
  /\ ret' = args.other.ret

NextTwo ==
  \/ VideoGetInfoCall \/ VideoGetInfoResume
  \/ ManyCall \/ ManyResume
  \/ DownloadsLinksCall \/ DownloadsLinksCountResume
  \/ DownloadsLinksPlaylistResume \/ DownloadsLinksVideoResume
  \/ Switch

SpecTwo == InitTwo /\ [][NextTwo]_vars

(***************************************************************************)
(* What an invocation returns when it runs alone with the provider answers *)
(* of its own call log: the function replayed from its first statement to  *)
(* its return, the n-th await taking the n-th answer.                      *)
(***************************************************************************)
AloneGetInfo == Video_getInfo(calls[1].outcome, args.getInfoOptions)

AloneMany ==
  LET videoUrls == NormalizeVideoUrls(args.videoUrls)
  IN ManyResponse([i \in 1..LengthOf(videoUrls) |->
                     ManySlot(ManyDownloadLink(calls[i].outcome, videoUrls, i - 1,
                                               args.types, args.qualitys))])

RECURSIVE AloneLoop(_, _, _, _, _)
\* the loop of getDownloadsLinks from videoIndex on, its next await taking calls[next]
AloneLoop(videoIndex, to, data, next, downloadLinks) ==
  IF ~LessEq(videoIndex, to) THEN BatchResponse(downloadLinks)
  ELSE IF Truthy(videoUrlAt(data, videoIndex))
  THEN AloneLoop(Num(videoIndex.h + 2), to, data, next + 1,
                 addLink(downloadLinks, json,
                         LinkOf(getDownloadLink(calls[next].outcome, videoUrlAt(data, videoIndex),
                                                videoIndex,
                                                MergedOption(args.options.types, List(<<"video and audio">>)),
                                                MergedOption(args.options.qualitys, Object(D_Q))))))
  ELSE AloneLoop(Num(videoIndex.h + 2), to, data, next,
                 addLink(downloadLinks, json, NotFound(videoIndex)))

AloneDownloadsLinks ==
  LET validated == prepare_from_to(calls[1].outcome, MergedOption(args.options.from, Null),
                                   MergedOption(args.options.to, Null))
  IN IF ~validated.succ THEN DownloadResponse(Null, TRUE, validated.msg_err)
     ELSE LET fetched == Playlist_getInfo(calls[2].outcome, args.url)
          IN IF fetched.err
             THEN DownloadResponse(Null, TRUE, <<"Error in download playlist data: ">> \o fetched.err_msg)
             ELSE AloneLoop(validated.from, validated.to, fetched.PlaylistData, 3, EmptyLinks(json))

Alone ==
  CASE args.op = "Video.getInfo" -> AloneGetInfo
    [] args.op = "Video.getDownloadLinkForMany" -> AloneMany
    [] args.op = "Playlist.getDownloadsLinks" -> AloneDownloadsLinks

\* C24: invocations interleaved at their provider suspension points, in any
\* order, do not interfere: each returns the envelope it returns when run alone
\* with the same provider answers (nothing one invocation writes is read by the
\* other).  Either invocation is the running one in some state, so the formula
\* speaks of both.
C24_NoInterference ==
  /\ ret.state # "rejected"
  /\ ret.state = "returned" => ret.value = Alone

\* both invocations were under way at the same time, and both have returned
C24_Witness ==
  /\ args.op = "Playlist.getDownloadsLinks" /\ ret.state = "returned" /\ ~ret.value.err
  /\ Len(calls) = 5
  /\ args.other.args.op = "Video.getDownloadLinkForMany"
  /\ args.other.ret.state = "returned"
  /\ Len(ret.value.results.items) = 3
  /\ ret.value.results.items[1].err /\ ~ret.value.results.items[2].err
  /\ ret.value = Alone

=============================================================================
